---- MODULE Spec2Model ----
(***************************************************************************)
(* A model of the example programs of pydantic_ai_examples:                *)
(*                                                                         *)
(*   builder_agent/builder.py         the builder session whose inner loop *)
(*                                    streams the created agent directly   *)
(*   builder_agent/builder_stream.py  the builder session whose inner loop *)
(*                                    runs the builder agent again and     *)
(*                                    shows the reply with stream_text     *)
(*   sim_editor.py                    the thoughts edit of the stored      *)
(*                                    simulation prompt                    *)
(*                                                                         *)
(* The language model behind an Agent is the environment: what it answers  *)
(* to a request (a tool call with some arguments, a final result, or an    *)
(* error of the transport) is chosen nondeterministically.  The tools and  *)
(* the main loops are the programs' own code and are translated from it.   *)
(***************************************************************************)
EXTENDS Integers, Sequences, FiniteSets, TLC

VARIABLES
    variant,        \* which program runs: "builder" or "builder_stream"
    pc,             \* position of main()
    origin,         \* the loop of main() that started the current agent run
    deps,           \* the BuilderDeps object of the session
    local_agent,    \* builder.py main(): the local created_agent
    result,         \* the data of the last finished builder run
    usage,          \* requests counted by the usage of the current run of main()
    retries,        \* retries the current builder run has used
    tool_outcome,   \* what the last tool call of the run gave back to the model
    stream,         \* fragments the created agent's stream has yet to yield
    response_text,  \* handoff_to_agent (builder.py): the accumulated text
    printed,        \* fragments printed by the current streaming loop
    display,        \* text the Live display of the last stream_text shows
    next_msg,       \* number of created-agent runs so far (tags their messages)
    turns,          \* queries the user has entered so far
    pre,            \* history: deps as it was when the current turn began
    spent,          \* history: model requests made in the current turn, by any agent
    frags,          \* history: all fragments of the current stream
    sim_prompt,     \* sim_editor: sim_data['sim']['elements'][0]['prompt'] in sim.yaml
    sim_before,     \* history: the stored prompt before the last edit request
    sim_request,    \* history: the section and thoughts of the last edit request
    sim_edits       \* edit requests handled so far

bvars == <<variant, pc, origin, deps, local_agent, result, usage, retries,
           tool_outcome, stream, response_text, printed, display, next_msg,
           turns, pre, spent, frags>>
svars == <<sim_prompt, sim_before, sim_request, sim_edits>>
vars == <<bvars, svars>>

----------------------------------------------------------------------------
(* Bounds of the model *)

\* queries the user enters in one session
MaxTurns == 2
\* model requests one builder run makes
MaxRequests == 3
\* retries a run grants before it raises (the framework's retry budget)
MaxRetries == 1
\* runs of the created agent through handoff_to_agent (builder_stream.py)
MaxHandoffs == 2
\* fragments of one streamed reply
MaxFrags == 2
\* symbols of the prompt stored in sim.yaml before the first edit
MaxPromptLen == 3
\* thoughts the thoughts editor returns
MaxThoughts == 2
\* calls of edit_thoughts in one session
MaxEdits == 2

----------------------------------------------------------------------------
(* Data *)

None == [tag |-> "None"]

\* AgentConfig.model_name: Literal['claude-3-5-sonnet-latest']
SupportedModels == {"claude-3-5-sonnet-latest"}

\* description (and, in builder.py, avatar) is carried along and read by no code
\* but the printing of the configuration.
AgentConfig(system_prompt, model_name, name) ==
    [tag |-> "AgentConfig", system_prompt |-> system_prompt,
     model_name |-> model_name, name |-> name, description |-> "d"]

AgentResponse(response) == [tag |-> "AgentResponse", response |-> response]

\* Agent[None, str](config.model_name, system_prompt=..., name=...)
Agent(model, system_prompt, name) ==
    [tag |-> "Agent", model |-> model, system_prompt |-> system_prompt,
     name |-> name]

\* BuilderDeps(): builder.py has no message_history; it stays empty there.
BuilderDeps ==
    [message_history |-> <<>>, current_config |-> None, created_agent |-> None]

\* The configurations the model may propose, one of them naming a model
\* outside the Literal of AgentConfig.model_name.
ConfigArgs ==
    { AgentConfig("write haiku", "claude-3-5-sonnet-latest", "HaikuBot"),
      AgentConfig("tell jokes", "claude-3-5-sonnet-latest", "JokeBot"),
      AgentConfig("write haiku", "gpt-99-nonexistent", "HaikuBot") }

\* What the user types at a prompt.
UserInputs == {"quit", "QUIT", "back", "Back", "write about the moon"}

\* str.lower() on the inputs above
Lower(s) ==
    CASE s = "QUIT" -> "quit"
      [] s = "Back" -> "back"
      [] OTHER -> s

\* The fragments (chunks) a stream may yield: strings of one or two characters.
Chunks == {<<"a">>, <<"b", "a">>}
FragSeqs == UNION {[1..n -> Chunks] : n \in 0..MaxFrags}
\* The texts a final AgentResponse may carry.
Texts == {<<>>, <<"a">>, <<"b", "a">>}

RECURSIVE Flatten(_)
\* ''.join(fragments)
Flatten(ss) == IF ss = <<>> THEN <<>> ELSE Head(ss) \o Flatten(Tail(ss))

----------------------------------------------------------------------------
(* The tools of builder_agent *)

\* pydantic's validation of a tool argument or result against AgentConfig
ValidAgentConfig(config) == config.model_name \in SupportedModels

create_agent_drops_agent(d, config) ==
    [d EXCEPT !.current_config = config]

create_agent_keeps_first(d, config) ==
    [d EXCEPT !.current_config = config,
              !.created_agent =
                  IF d.created_agent = None
                  THEN Agent(config.model_name, config.system_prompt, config.name)
                  ELSE d.created_agent]

\* create_agent: ctx.deps.current_config = config; new_agent = Agent(...);
\* ctx.deps.created_agent = new_agent
create_agent(d, config) ==
    [d EXCEPT !.current_config = config,
              !.created_agent =
                  Agent(config.model_name, config.system_prompt, config.name)]

no_agent_check_missing(d) == FALSE

\* handoff_to_agent: `if not ctx.deps.created_agent`
no_created_agent(d) == d.created_agent = None

\* The request and the response a run of the created agent adds; k tags the run.
new_messages(k) ==
    << [run |-> k, kind |-> "request"], [run |-> k, kind |-> "response"] >>

\* result.all_messages(): the history passed to the run, then its new messages
all_messages(message_history, k) == message_history \o new_messages(k)

\* handoff_to_agent (builder_stream.py):
\* ctx.deps.message_history.extend(result.all_messages())
extend_history(d, k) ==
    [d EXCEPT !.message_history = @ \o all_messages(d.message_history, k)]

accumulate_overwrites(text, chunk) == chunk

\* handoff_to_agent (builder.py): response_text += chunk
accumulate(text, chunk) == text \o chunk

RECURSIVE stream_text_from(_, _)
stream_text_from(current_text, text) ==
    IF text = <<>> THEN current_text
    ELSE stream_text_from(Append(current_text, Head(text)), Tail(text))

\* stream_text: Live(Text("")), then per char current_text += char and
\* live.update(Text(current_text)); the value is what the display ends on.
stream_text(text) == stream_text_from(<<>>, text)

----------------------------------------------------------------------------
(* The sessions of builder.py and builder_stream.py *)

SimIdle ==
    /\ sim_prompt = <<>>
    /\ sim_before = <<>>
    /\ sim_request = None
    /\ sim_edits = 0

\* main(): deps = BuilderDeps(), then the first Prompt.ask
BuilderInit ==
    /\ pc = "outer_prompt"
    /\ origin = "outer"
    /\ deps = BuilderDeps
    /\ local_agent = None
    /\ result = None
    /\ usage = 0
    /\ retries = 0
    /\ tool_outcome = "none"
    /\ stream = <<>>
    /\ response_text = <<>>
    /\ printed = <<>>
    /\ display = <<>>
    /\ next_msg = 0
    /\ turns = 0
    /\ pre = BuilderDeps
    /\ spent = 0
    /\ frags = <<>>

Init ==
    /\ variant \in {"builder", "builder_stream"}
    /\ BuilderInit
    /\ SimIdle

\* builder_agent.run(request, deps=deps) begins: a fresh usage and retry count
StartRun(from) ==
    /\ pc' = "builder_run"
    /\ origin' = from
    /\ usage' = 0
    /\ spent' = 0
    /\ retries' = 0
    /\ tool_outcome' = "none"
    /\ pre' = deps
    /\ turns' = turns + 1
    /\ UNCHANGED <<variant, deps, local_agent, result, stream, response_text,
                   printed, display, next_msg, frags>>

\* main(): the outer Prompt.ask and what follows it
OuterPrompt(request) ==
    /\ pc = "outer_prompt"
    /\ IF Lower(request) = "quit"
       THEN /\ pc' = "done"
            /\ UNCHANGED <<variant, origin, deps, local_agent, result, usage,
                           retries, tool_outcome, stream, response_text,
                           printed, display, next_msg, turns, pre, spent, frags>>
       ELSE /\ turns < MaxTurns
            /\ StartRun("outer")

\* A tool call or a result that failed validation, or a tool that raised
\* ModelRetry: the run asks the model again, or raises when out of retries.
Retry(outcome) ==
    /\ tool_outcome' = outcome
    /\ IF retries >= MaxRetries
       THEN pc' = "crashed" /\ retries' = retries
       ELSE pc' = "builder_run" /\ retries' = retries + 1

\* The model answers a request with a call of create_agent(config).
ModelCallsCreateAgent(config) ==
    /\ pc = "builder_run"
    /\ usage + 1 < MaxRequests
    /\ usage' = usage + 1
    /\ spent' = spent + 1
    /\ IF ValidAgentConfig(config)
       THEN /\ deps' = create_agent(deps, config)
            /\ tool_outcome' = "create_agent returned"
            /\ UNCHANGED <<pc, retries>>
       ELSE /\ Retry("create_agent arguments rejected")
            /\ UNCHANGED deps
    /\ UNCHANGED <<variant, origin, local_agent, result, stream, response_text,
                   printed, display, next_msg, turns, pre, frags>>

\* The model answers a request with a call of handoff_to_agent(query).
ModelCallsHandoff ==
    /\ pc = "builder_run"
    /\ usage + 1 < MaxRequests
    /\ usage' = usage + 1
    /\ IF no_created_agent(deps)
       THEN \* raise ModelRetry("No agent has been created yet...")
            /\ Retry("handoff_to_agent raised ModelRetry")
            /\ spent' = spent + 1
            /\ UNCHANGED <<deps, stream, response_text, printed, next_msg, frags>>
       ELSE IF variant = "builder"
       THEN \* async with ctx.deps.created_agent.run_stream(query) as result
            /\ \E fs \in FragSeqs : frags' = fs /\ stream' = fs
            /\ response_text' = <<>>
            /\ printed' = <<>>
            /\ pc' = "handoff_stream"
            /\ spent' = spent + 2
            /\ UNCHANGED <<deps, retries, tool_outcome, next_msg>>
       ELSE \* result = await ctx.deps.created_agent.run(query, message_history=...)
            /\ next_msg < MaxHandoffs
            /\ spent' = spent + 2
            /\ \/ /\ deps' = extend_history(deps, next_msg + 1)
                  /\ next_msg' = next_msg + 1
                  /\ tool_outcome' = "handoff_to_agent returned"
                  /\ UNCHANGED <<pc, retries>>
               \/ \* the created agent's run raises; the tool and the run propagate it
                  /\ pc' = "crashed"
                  /\ UNCHANGED <<deps, next_msg, tool_outcome, retries>>
            /\ UNCHANGED <<stream, response_text, printed, frags>>
    /\ UNCHANGED <<variant, origin, local_agent, result, display, turns, pre>>

\* handoff_to_agent (builder.py): one pass of `async for chunk in ...`
HandoffChunk ==
    /\ pc = "handoff_stream"
    /\ stream # <<>>
    /\ response_text' = accumulate(response_text, Head(stream))
    /\ printed' = Append(printed, Head(stream))
    /\ stream' = Tail(stream)
    /\ UNCHANGED <<variant, pc, origin, deps, local_agent, result, usage,
                   retries, tool_outcome, display, next_msg, turns, pre, spent,
                   frags>>

\* handoff_to_agent (builder.py): return AgentResponse(response=response_text);
\* the tool's locals end with the call
HandoffReturn ==
    /\ pc = "handoff_stream"
    /\ stream = <<>>
    /\ pc' = "builder_run"
    /\ tool_outcome' = "handoff_to_agent returned"
    /\ response_text' = <<>>
    /\ printed' = <<>>
    /\ frags' = <<>>
    /\ UNCHANGED <<variant, origin, deps, local_agent, result, usage, retries,
                   stream, display, next_msg, turns, pre, spent>>

\* main() after a builder run gave `data`
AfterRun(data) ==
    /\ result' = data
    /\ IF variant = "builder"
       THEN \* created_agent = deps.created_agent; if not created_agent: continue
            /\ local_agent' = deps.created_agent
            /\ pc' = IF deps.created_agent = None THEN "outer_prompt"
                     ELSE "inner_prompt"
            /\ UNCHANGED display
       ELSE IF origin = "outer"
       THEN \* if isinstance(result.data, AgentConfig): ... inner loop
            /\ IF data.tag = "AgentConfig"
               THEN /\ display' = stream_text(<<"\nSystem Prompt: ",
                                                data.system_prompt>>)
                    /\ pc' = "inner_prompt"
               ELSE /\ pc' = "outer_prompt"
                    /\ UNCHANGED display
            /\ UNCHANGED local_agent
       ELSE \* if isinstance(result.data, AgentResponse): stream_text(...)
            /\ display' = IF data.tag = "AgentResponse"
                          THEN stream_text(data.response) ELSE display
            /\ pc' = "inner_prompt"
            /\ UNCHANGED local_agent

\* The model answers a request with a final result of type AgentConfig.
ModelReturnsConfig(config) ==
    /\ pc = "builder_run"
    /\ usage < MaxRequests
    /\ usage' = usage + 1
    /\ spent' = spent + 1
    /\ IF ValidAgentConfig(config)
       THEN /\ AfterRun(config)
            /\ UNCHANGED <<retries, tool_outcome>>
       ELSE /\ Retry("result rejected")
            /\ UNCHANGED <<result, local_agent, display>>
    /\ UNCHANGED <<variant, origin, deps, stream, response_text, printed,
                   next_msg, turns, pre, frags>>

\* The model answers a request with a final result of type AgentResponse.
ModelReturnsResponse(text) ==
    /\ pc = "builder_run"
    /\ usage < MaxRequests
    /\ usage' = usage + 1
    /\ spent' = spent + 1
    /\ AfterRun(AgentResponse(text))
    /\ UNCHANGED <<variant, origin, deps, retries, tool_outcome, stream,
                   response_text, printed, next_msg, turns, pre, frags>>

\* A request of the run, or the stream of the created agent, raises: nothing
\* in main() catches it.
TransportFails ==
    /\ pc \in {"builder_run", "handoff_stream", "direct_stream"}
    /\ pc' = "crashed"
    /\ UNCHANGED <<variant, origin, deps, local_agent, result, usage, retries,
                   tool_outcome, stream, response_text, printed, display,
                   next_msg, turns, pre, spent, frags>>

\* main(): the inner Prompt.ask and what follows it
InnerPrompt(query) ==
    /\ pc = "inner_prompt"
    /\ IF Lower(query) = "back"
       THEN /\ pc' = "outer_prompt"
            /\ UNCHANGED <<variant, origin, deps, local_agent, result, usage,
                           retries, tool_outcome, stream, response_text,
                           printed, display, next_msg, turns, pre, spent, frags>>
       ELSE /\ turns < MaxTurns
            /\ IF variant = "builder"
               THEN \* async with created_agent.run_stream(query) as result
                    /\ \E fs \in FragSeqs : frags' = fs /\ stream' = fs
                    /\ printed' = <<>>
                    /\ pc' = "direct_stream"
                    /\ origin' = "inner"
                    /\ usage' = 1
                    /\ spent' = 1
                    /\ pre' = deps
                    /\ turns' = turns + 1
                    /\ UNCHANGED <<variant, deps, local_agent, result, retries,
                                   tool_outcome, response_text, display,
                                   next_msg>>
               ELSE \* result = await builder_agent.run(query, deps=deps)
                    StartRun("inner")

\* builder.py main(): one pass of the inner `async for chunk in ...`
DirectChunk ==
    /\ pc = "direct_stream"
    /\ stream # <<>>
    /\ printed' = Append(printed, Head(stream))
    /\ stream' = Tail(stream)
    /\ UNCHANGED <<variant, pc, origin, deps, local_agent, result, usage,
                   retries, tool_outcome, response_text, display, next_msg,
                   turns, pre, spent, frags>>

\* builder.py main(): the stream ends; print() and ask again
DirectEnd ==
    /\ pc = "direct_stream"
    /\ stream = <<>>
    /\ pc' = "inner_prompt"
    /\ printed' = <<>>
    /\ frags' = <<>>
    /\ UNCHANGED <<variant, origin, deps, local_agent, result, usage, retries,
                   tool_outcome, stream, response_text, display, next_msg,
                   turns, pre, spent>>

Next ==
    \/ \E request \in UserInputs : OuterPrompt(request) /\ UNCHANGED svars
    \/ \E config \in ConfigArgs :
           ModelCallsCreateAgent(config) /\ UNCHANGED svars
    \/ ModelCallsHandoff /\ UNCHANGED svars
    \/ HandoffChunk /\ UNCHANGED svars
    \/ HandoffReturn /\ UNCHANGED svars
    \/ \E config \in ConfigArgs : ModelReturnsConfig(config) /\ UNCHANGED svars
    \/ \E text \in Texts : ModelReturnsResponse(text) /\ UNCHANGED svars
    \/ TransportFails /\ UNCHANGED svars
    \/ \E query \in UserInputs : InnerPrompt(query) /\ UNCHANGED svars
    \/ DirectChunk /\ UNCHANGED svars
    \/ DirectEnd /\ UNCHANGED svars

Spec == Init /\ [][Next]_vars

----------------------------------------------------------------------------
(* Properties of the builder sessions *)

\* main() is between two turns (or has left the loop).
BetweenTurns == pc \in {"outer_prompt", "inner_prompt", "done"}

RECURSIVE ConcatTurns(_)
\* The new messages of the created agent's runs 1..n, in order.
ConcatTurns(n) ==
    IF n = 0 THEN <<>> ELSE ConcatTurns(n - 1) \o new_messages(n)

\* C1: a turn that ends in failure leaves deps.message_history,
\* deps.current_config and deps.created_agent as they were before the turn,
\* at whichever point of the turn the failure occurs.
C1_FailedTurnLeavesDepsUnchanged == pc = "crashed" => deps = pre

\* C2: after any sequence of successful handoff_to_agent calls the history is
\* the in-order concatenation of each call's new messages (so every call
\* grows it by exactly its own request and response, and no message record
\* appears twice).
C2_HistoryIsConcatenationOfTurns ==
    deps.message_history = ConcatTurns(next_msg)

\* C3: deps.current_config is non-null iff deps.created_agent is non-null,
\* between turns and after any sequence of tool calls.
C3_ConfigIffAgent ==
    (deps.current_config # None) <=> (deps.created_agent # None)

C3_Witness ==
    /\ BetweenTurns
    /\ deps.current_config # None
    /\ deps.current_config # pre.current_config
    /\ deps.created_agent # None

\* C4: a create_agent call stores the configuration together with the agent
\* built from it, or, when the configuration is rejected (its model is
\* outside the supported set), changes neither; whenever an agent is
\* present, current_config is the configuration it was built from.
C4_BuildIsAtomic ==
    /\ [](deps.created_agent # None =>
            /\ deps.current_config # None
            /\ ValidAgentConfig(deps.current_config)
            /\ deps.created_agent = Agent(deps.current_config.model_name,
                                          deps.current_config.system_prompt,
                                          deps.current_config.name))
    /\ [][\A config \in ConfigArgs :
            ModelCallsCreateAgent(config) =>
                IF config.model_name \in SupportedModels
                THEN /\ deps'.current_config = config
                     /\ deps'.created_agent =
                            Agent(config.model_name, config.system_prompt,
                                  config.name)
                ELSE deps' = deps]_vars

\* An earlier agent was replaced in this turn, and a later create_agent call
\* of the same run was rejected.
C4_Witness ==
    /\ pre.created_agent # None
    /\ deps.created_agent # None
    /\ deps.created_agent # pre.created_agent
    /\ tool_outcome = "create_agent arguments rejected"

\* C5: a query entered in the inner loop (an agent exists, the query is not
\* 'back') never starts a run of builder_agent and never changes the stored
\* configuration or agent, in either program.
C5_ActiveQueriesBypassBuilder ==
    (origin = "inner" /\ pre.created_agent # None) =>
        /\ pc # "builder_run"
        /\ deps.created_agent = pre.created_agent
        /\ deps.current_config = pre.current_config

\* C6: the session gets a sub-agent handle only in a turn whose result is a
\* validated AgentConfig; a turn whose result is an AgentResponse leaves it
\* without one.
C6_ActiveOnlyOnConfigResult ==
    (BetweenTurns /\ pre.created_agent = None /\ deps.created_agent # None)
        => result.tag = "AgentConfig"

\* C7: after a turn the usage counters of its run equal the cost of every
\* model call made in the turn, the created agent's calls included.
C7_UsageCountsEveryCall == BetweenTurns => usage = spent

\* C8: while a stream is consumed the fragments printed so far followed by
\* those still to come are the fragments of the reply, in order, and the
\* accumulated text is the concatenation of the fragments printed; the text
\* stream_text ends on is the text it was given.
C8_StreamingEquivalence ==
    /\ pc = "handoff_stream" =>
           /\ printed \o stream = frags
           /\ response_text = Flatten(printed)
    /\ pc = "direct_stream" => printed \o stream = frags
    /\ (variant = "builder_stream" /\ origin = "inner"
        /\ result.tag = "AgentResponse") => display = result.response

\* handoff_to_agent has consumed a stream of two fragments or more.
C8_Witness ==
    /\ pc = "handoff_stream"
    /\ stream = <<>>
    /\ Len(frags) >= 2
    /\ response_text = Flatten(frags)
    /\ printed = frags

----------------------------------------------------------------------------
(* sim_editor.py: the thoughts edit of the stored prompt *)

(* The prompt is a sequence of symbols.  Each of the two marker strings is  *)
(* one symbol; every other symbol is a single character.  A marker never    *)
(* ends a prompt here, so a slice that keeps or drops "the last character"  *)
(* keeps or drops one symbol.                                               *)

\* 'Your thoughts as you join the call'
StartMarker == "Your thoughts as you join the call"
\* 'Your recent memories for context'
EndMarker == "Your recent memories for context"

Sections == {"thoughts", "memories", "communication_guidelines"}

StoredPrompts ==
    {<<>>} \cup
    UNION {{body \o <<"x">> : body \in [1..n -> {StartMarker, EndMarker, "x"}]}
              : n \in 0..(MaxPromptLen - 1)}

ThoughtLists == UNION {[1..n -> {"t"}] : n \in 0..MaxThoughts}

\* str.find(marker): the index (from 0) of its first occurrence, or -1
Find(text, marker) ==
    IF \E i \in 1..Len(text) : text[i] = marker
    THEN (CHOOSE i \in 1..Len(text) :
              /\ text[i] = marker
              /\ \A j \in 1..(i - 1) : text[j] # marker) - 1
    ELSE -1

\* The position a slice index stands for: a negative one counts from the end.
SliceIndex(text, i) ==
    IF i >= 0 THEN (IF i > Len(text) THEN Len(text) ELSE i)
    ELSE (IF Len(text) + i < 0 THEN 0 ELSE Len(text) + i)

\* text[:i]
SliceTo(text, i) == SubSeq(text, 1, SliceIndex(text, i))

\* text[i:]
SliceFrom(text, i) == SubSeq(text, SliceIndex(text, i) + 1, Len(text))

RECURSIVE thoughts_lines(_)
\* for thought in result.data.thoughts: thoughts_text += f'{thought}\n\n'
thoughts_lines(thoughts) ==
    IF thoughts = <<>> THEN <<>>
    ELSE <<Head(thoughts), "\n", "\n">> \o thoughts_lines(Tail(thoughts))

\* thoughts_text = 'Your thoughts as you join the call (in no particular
\* order):\n', then the thoughts
thoughts_text(thoughts) ==
    <<StartMarker, " (in no particular order):", "\n">> \o thoughts_lines(thoughts)

\* new_prompt = prompt[:start] + thoughts_text + prompt[end:]
new_prompt(prompt, thoughts) ==
    SliceTo(prompt, Find(prompt, StartMarker))
        \o thoughts_text(thoughts)
        \o SliceFrom(prompt, Find(prompt, EndMarker))

SimInit ==
    /\ sim_prompt \in StoredPrompts
    /\ sim_before = sim_prompt
    /\ sim_request = None
    /\ sim_edits = 0

\* edit_thoughts(ctx, request), the thoughts editor having returned `thoughts`
edit_thoughts(section, thoughts) ==
    /\ sim_edits < MaxEdits
    /\ sim_edits' = sim_edits + 1
    /\ sim_before' = sim_prompt
    /\ sim_request' = [section |-> section, thoughts |-> thoughts]
    /\ sim_prompt' = IF section # "thoughts" THEN sim_prompt
                     ELSE new_prompt(sim_prompt, thoughts)
    /\ UNCHANGED bvars

InitSim ==
    /\ variant = "builder"
    /\ BuilderInit
    /\ SimInit

NextSim ==
    \E section \in Sections : \E thoughts \in ThoughtLists :
        edit_thoughts(section, thoughts)

SpecSim == InitSim /\ [][NextSim]_vars

\* C10: a thoughts edit keeps every symbol before the start marker and
\* every symbol from the end marker onward, and replaces only the start
\* marker (by the new header) and what lies between the two markers; when a
\* marker is missing, or the end marker comes first, no text lies between
\* them and no other symbol is removed or repeated.  An edit of another
\* section leaves the prompt as it was.
C10_EditReplacesOnlyBetweenMarkers ==
    sim_request # None =>
        IF sim_request.section # "thoughts"
        THEN sim_prompt = sim_before
        ELSE LET p == sim_before
                 s == Find(p, StartMarker)
                 e == Find(p, EndMarker)
             IN  \E i \in 0..Len(p) : \E j \in i..Len(p) :
                    /\ sim_prompt = SubSeq(p, 1, i)
                                       \o thoughts_text(sim_request.thoughts)
                                       \o SubSeq(p, j + 1, Len(p))
                    /\ s >= 0 => i = s
                    /\ e >= 0 => j = e
                    /\ ~(s >= 0 /\ e >= s) =>
                           j <= i + (IF s >= 0 THEN 1 ELSE 0)

====
